---- MODULE Spec2Model ----
(***************************************************************************)
(* The production-forecast dashboard script (src/app.py), read as a state  *)
(* machine: one action per statement of the data/model/prediction part,    *)
(* one script run per page refresh or widget interaction.                  *)
(*                                                                         *)
(* Floating-point values are carried in fixed point (FP units per 1.0);    *)
(* the historical values are coded on a coarse integer grid so that the    *)
(* normal equations stay inside TLC's integer range.                       *)
(***************************************************************************)
EXTENDS Integers, Sequences, FiniteSets, TLC

\* ------------------------------------------------------------------ bounds
MaxRuns == 3      \* script runs (page refresh / widget interaction) explored
MaxRows == 3      \* rows of an arbitrary dataset handed to the cleaning step

\* ------------------------------------------------------- program constants
Seed == 123       \* np.random.seed(123)
n == 30           \* n = 30
AlphaPct == 5     \* summary_frame(alpha=0.05)

\* drop_indices = [16, 19, 22]
drop_indices_literal == {16, 19, 22}

\* the predictor columns selected for the design matrix, in this order
PredictorColumns == <<"yield", "productivity", "workforce", "hour">>

\* fixed-point unit: FP stands for 1.0
FP == 10 * 10

\* ----------------------------------------------------- global numpy RNG
\* One step of the process-wide generator: the state advances and the value
\* drawn is a function of the new state.
RngNext(s) == (75 * s + 74) % 65537

RECURSIVE RngDraw(_, _, _)
\* `count` draws on `levels` grid points: <<values, generator state afterwards>>
RngDraw(s, count, levels) ==
    IF count = 0 THEN <<(<< >>), s>>
    ELSE LET s1 == RngNext(s)
             rest == RngDraw(s1, count - 1, levels)
         IN  <<(<<(s1 \div 7) % levels>>) \o rest[1], rest[2]>>

\* pd.DataFrame({...}) over five draws of size rows each, default RangeIndex
MakeFrame(s, rows) ==
    LET d1 == RngDraw(s, rows, 5)
        d2 == RngDraw(d1[2], rows, 3)
        d3 == RngDraw(d2[2], rows, 3)
        d4 == RngDraw(d3[2], rows, 3)
        d5 == RngDraw(d4[2], rows, 3)
    IN  [frame |-> [i \in 1..rows |->
                      [index |-> i - 1,
                       production |-> d1[1][i],
                       yield |-> d2[1][i],
                       productivity |-> d3[1][i],
                       workforce |-> d4[1][i],
                       hour |-> d5[1][i]]],
         rng |-> d5[2]]

\* ------------------------------------------------------------- cleaning
\* df.drop(...) whose returned table is thrown away: nothing is dropped
DropNotApplied(frame, labels) == frame

\* DataFrame.drop(labels, errors='ignore'): rows whose index label is among
\* the labels go; labels that name no row are ignored.
Drop(frame, labels) == SelectSeq(frame, LAMBDA r : r.index \notin labels)

\* DataFrame.reset_index(drop=True): labels become 0..m-1 in row order
ResetIndex(frame) ==
    [i \in 1..Len(frame) |-> [frame[i] EXCEPT !.index = i - 1]]

\* the same without .reset_index(drop=True): survivors keep their labels
clean_keep_labels(frame, labels) == Drop(frame, labels)

\* df.drop(drop_indices, errors='ignore').reset_index(drop=True)
clean(frame, labels) == ResetIndex(Drop(frame, labels))

\* ------------------------------------------------------- fixed point
\* floor(a * b / d) without forming a * b (d > 0)
MulDiv(a, b, d) == (a \div d) * b + ((a % d) * b) \div d

\* a float that is not a number (0/0, or anything computed from it)
NaN == 0 - 999999999

IsNaN(x) == x = NaN

RECURSIVE SqrtSearch(_, _, _)
SqrtSearch(v, lo, hi) ==
    IF lo >= hi THEN lo
    ELSE LET mid == (lo + hi + 1) \div 2
         IN  IF mid * mid <= v THEN SqrtSearch(v, mid, hi)
                               ELSE SqrtSearch(v, lo, mid - 1)

\* np.sqrt on a fixed-point square: floor of the root; nan for nan or negative
Sqrt(v) == IF IsNaN(v) \/ v < 0 THEN NaN ELSE SqrtSearch(v, 0, 46340)

\* ------------------------------------------------------- linear algebra
RECURSIVE SumTo(_, _)
\* f[1] + ... + f[m]
SumTo(f, m) == IF m = 0 THEN 0 ELSE f[m] + SumTo(f, m - 1)

\* v . w
Dot(v, w) == SumTo([j \in 1..Len(v) |-> v[j] * w[j]], Len(v))

\* the same vector / matrix with every entry evaluated once
Vec(v) == v \o << >>
Mat(M) == [i \in 1..Len(M) |-> Vec(M[i])] \o << >>

\* M without row i and column j
Minor(M, i, j) ==
    Mat([a \in 1..(Len(M) - 1) |->
            [b \in 1..(Len(M) - 1) |->
                M[IF a < i THEN a ELSE a + 1][IF b < j THEN b ELSE b + 1]]])

RECURSIVE Det(_)
\* determinant by expansion along the first row
Det(M) ==
    IF Len(M) = 0 THEN 1
    ELSE IF Len(M) = 1 THEN M[1][1]
    ELSE SumTo([j \in 1..Len(M) |->
                  (IF j % 2 = 1 THEN 1 ELSE 0 - 1) * M[1][j] * Det(Minor(M, 1, j))],
               Len(M))

\* adjugate: Adj[i][j] = (-1)^(i+j) det(M without row j and column i)
Adjugate(M) ==
    Mat([i \in 1..Len(M) |->
            [j \in 1..Len(M) |->
                (IF (i + j) % 2 = 0 THEN 1 ELSE 0 - 1) * Det(Minor(M, j, i))]])

\* X'X for the rows of a design matrix with p columns
Gram(rows, p) ==
    Mat([j \in 1..p |-> [l \in 1..p |->
            SumTo([i \in 1..Len(rows) |-> rows[i][j] * rows[i][l]], Len(rows))]])

\* X'y
Moment(rows, p, yv) ==
    Vec([j \in 1..p |-> SumTo([i \in 1..Len(rows) |-> rows[i][j] * yv[i]], Len(rows))])

\* ------------------------------------------------------- design matrix
\* df_clean[[...]]: the listed columns, in the listed order
SelectColumns(frame, cols) ==
    [columns |-> cols,
     rows |-> [i \in 1..Len(frame) |-> [j \in 1..Len(cols) |-> frame[i][cols[j]]]]]

\* a column with no spread and a non-zero entry already is a constant
HasConstant(X) ==
    \E j \in 1..Len(X.columns) :
        /\ \A i \in 1..Len(X.rows) : X.rows[i][j] = X.rows[1][j]
        /\ \E i \in 1..Len(X.rows) : X.rows[i][j] # 0

\* sm.add_constant(X): prepend=True, has_constant='skip'
add_constant(X) ==
    IF HasConstant(X) THEN X
    ELSE [columns |-> <<"const">> \o X.columns,
          rows |-> [i \in 1..Len(X.rows) |-> <<1>> \o X.rows[i]]]

\* ------------------------------------------------------------ the fit
\* sm.OLS(y, X).fit() for a design of full column rank (the pseudo-inverse
\* is then the inverse, kept as cov_num / cov_den, and the rank is the
\* number of columns). With no residual degree of freedom left the scale
\* is a division by zero: not a number, and no exception.
OLSFit(yv, X) ==
    LET p == Len(X.columns)
        m == Len(X.rows)
        G == Gram(X.rows, p)
        den == Det(G)
        num == Adjugate(G)
        xty == Moment(X.rows, p, yv)
        params == Vec([j \in 1..p |-> MulDiv(Dot(num[j], xty), FP, den)])
        resid == Vec([i \in 1..m |-> yv[i] * FP - Dot(X.rows[i], params)])
        ssr == SumTo([i \in 1..m |-> resid[i] * resid[i]], m)
        ybar == MulDiv(SumTo(yv, m), FP, m)
        tss == SumTo([i \in 1..m |-> (yv[i] * FP - ybar) * (yv[i] * FP - ybar)], m)
        df_resid == m - p
    IN  [exog_names |-> X.columns,
         nobs |-> m,
         params |-> params,
         df_resid |-> df_resid,
         ssr |-> ssr,
         centered_tss |-> tss,
         scale |-> IF df_resid = 0 THEN NaN ELSE ssr \div df_resid,
         cov_num |-> num,
         cov_den |-> den]

\* model.rsquared = 1 - ssr / centered_tss
rsquared(mdl) ==
    IF mdl.centered_tss = 0 THEN NaN
    ELSE FP - MulDiv(mdl.ssr, FP, mdl.centered_tss)

\* df_clean.mean(): the mean of every column
ColumnMeans(frame) ==
    [c \in {"production"} \cup {PredictorColumns[j] : j \in 1..Len(PredictorColumns)} |->
        IF Len(frame) = 0 THEN NaN
        ELSE MulDiv(SumTo([i \in 1..Len(frame) |-> frame[i][c]], Len(frame)),
                    FP, Len(frame))]

\* ------------------------------------------------------- the prediction
\* scipy's t.ppf(1 - alpha/2, dof) in thousandths, tabulated for the
\* level the script asks for (alpha = 0.05)
TQuantile(alphaPct, dof) ==
    IF dof <= 0 \/ alphaPct # 5 THEN NaN
    ELSE <<12706, 4303, 3182, 2776, 2571, 2447, 2365, 2306, 2262, 2228,
           2201, 2179, 2160, 2145, 2131, 2120, 2110, 2101, 2093, 2086,
           2080, 2074, 2069, 2064, 2060, 2056, 2052, 2048, 2045, 2042>>[dof]

\* x' (X'X)^-1 x scaled by the determinant: sum of x_j num[j][l] x_l
QuadForm(x, num) == SumTo([j \in 1..Len(x) |-> x[j] * Dot(num[j], x)], Len(x))

\* scale * x' (X'X)^-1 x
VarPredMean(mdl, x) ==
    IF IsNaN(mdl.scale) THEN NaN
    ELSE MulDiv(mdl.scale, MulDiv(QuadForm(x, mdl.cov_num), FP, mdl.cov_den), FP)

\* the same row with two of the dict's keys written in the other order
MakeInputReordered(inp) ==
    [columns |-> <<"const", "yield", "productivity", "hour", "workforce">>,
     rows |-> << <<1, inp.yield, inp.productivity, inp.hour, inp.workforce>> >>]

\* pd.DataFrame({'const': 1.0, 'yield': [..], 'productivity': [..],
\*               'workforce': [..], 'hour': [..]}): one row, columns in
\* the order of the dict's keys
MakeInput(inp) ==
    [columns |-> <<"const", "yield", "productivity", "workforce", "hour">>,
     rows |-> << <<1, inp.yield, inp.productivity, inp.workforce, inp.hour>> >>]

\* model.get_prediction(exog): exog is read as a bare array, column by
\* position; a row of another width than params cannot be multiplied
get_prediction(mdl, exog) ==
    LET x == exog.rows[1] IN
    IF Len(x) # Len(mdl.params) THEN [ok |-> FALSE]
    ELSE [ok |-> TRUE,
          predicted_mean |-> Dot(x, mdl.params),
          var_pred_mean |-> VarPredMean(mdl, x),
          var_resid |-> mdl.scale,
          df |-> mdl.df_resid]

\* a - b and a + b on floats
Minus(a, b) == IF IsNaN(a) \/ IsNaN(b) THEN NaN ELSE a - b
Plus(a, b) == IF IsNaN(a) \/ IsNaN(b) THEN NaN ELSE a + b

\* q * se, q in thousandths
Margin(q, se) == IF IsNaN(q) \/ IsNaN(se) THEN NaN ELSE MulDiv(se, q, 1000)

\* predictions.summary_frame(alpha)
summary_frame(pr, alphaPct) ==
    LET q == TQuantile(alphaPct, pr.df)
        se_mean == Sqrt(pr.var_pred_mean)
        se_obs == Sqrt(Plus(pr.var_pred_mean, pr.var_resid))
    IN  [mean |-> pr.predicted_mean,
         mean_se |-> se_mean,
         mean_ci_lower |-> Minus(pr.predicted_mean, Margin(q, se_mean)),
         mean_ci_upper |-> Plus(pr.predicted_mean, Margin(q, se_mean)),
         obs_ci_lower |-> Minus(pr.predicted_mean, Margin(q, se_obs)),
         obs_ci_upper |-> Plus(pr.predicted_mean, Margin(q, se_obs))]

\* the bounds read from the mean-response columns instead
ExtractMeanInterval(frame) ==
    [pred_val |-> frame.mean,
     lower_val |-> frame.mean_ci_lower,
     upper_val |-> frame.mean_ci_upper]

\* the two bounds read from each other's column
ExtractSwapped(frame) ==
    [pred_val |-> frame.mean,
     lower_val |-> frame.obs_ci_upper,
     upper_val |-> frame.obs_ci_lower]

\* pred_val, lower_val, upper_val
ExtractResult(frame) ==
    [pred_val |-> frame.mean,
     lower_val |-> frame.obs_ci_lower,
     upper_val |-> frame.obs_ci_upper]

\* ------------------------------------------------------------ widgets
\* A slider's value on the coded grid: 0 the low end of its range, 1 its
\* default, 2 the high end.
SliderLevels == {0, 1, 2}

SliderNames == {"yield", "productivity", "workforce", "hour"}

\* the value every slider shows before the user touches it
SliderDefaults == [w \in SliderNames |-> 1]

\* ---------------------------------------------------------------- state
VARIABLES
    pc,            \* the statement the running script is at
    run,           \* which script run of the session this is
    rng,           \* numpy's process-wide generator state
    widgets,       \* the sliders' values kept by the session
    df,            \* the historical table
    drop_indices,  \* the exclusion list
    df_clean,      \* the table after exclusion
    X,             \* the design matrix (<< >> while unbound)
    y,             \* the outcome column
    model,         \* the fitted model (<< >> while unbound)
    means,         \* column means (<< >> while unbound)
    inputs,        \* input_yield, input_prod, input_wf, input_hour
    caption,       \* the R^2 shown in the sidebar
    input_data,    \* the row handed to get_prediction
    predictions,   \* the prediction object
    pred_df,       \* its summary frame
    result,        \* pred_val, lower_val, upper_val
    history,       \* every (inputs, result) the session has shown
    exclusion_config  \* the exclusion list the script is deployed with

vars == <<exclusion_config, pc, run, rng, widgets, df, drop_indices, df_clean, X, y, model, means,
          inputs, caption, input_data, predictions, pred_df, result, history>>

\* the names a script run binds, all unbound
Unbound ==
    /\ df = << >> /\ drop_indices = {} /\ df_clean = << >>
    /\ X = << >> /\ y = << >> /\ model = << >> /\ means = << >>
    /\ inputs = << >> /\ caption = << >> /\ input_data = << >>
    /\ predictions = << >> /\ pred_df = << >> /\ result = << >>

\* states the generator of a fresh process may be in
FreshRngStates == {0, 1}

Init ==
    /\ pc = "seed" /\ run = 1
    /\ rng \in FreshRngStates
    /\ widgets = SliderDefaults
    /\ history = {}
    /\ exclusion_config = drop_indices_literal
    /\ Unbound

\* np.random.seed(123)
SeedStep ==
    /\ pc = "seed"
    /\ rng' = Seed
    /\ pc' = "data"
    /\ UNCHANGED <<exclusion_config, run, widgets, df, drop_indices, df_clean, X, y, model, means,
                   inputs, caption, input_data, predictions, pred_df, result, history>>

\* n = 30; df = pd.DataFrame({... np.random ...})
MakeData ==
    /\ pc = "data"
    /\ LET made == MakeFrame(rng, n)
       IN  df' = made.frame /\ rng' = made.rng
    /\ pc' = "drop"
    /\ UNCHANGED <<exclusion_config, run, widgets, drop_indices, df_clean, X, y, model, means,
                   inputs, caption, input_data, predictions, pred_df, result, history>>

\* drop_indices = [16, 19, 22]
SetDrop ==
    /\ pc = "drop"
    /\ drop_indices' = exclusion_config
    /\ pc' = "clean"
    /\ UNCHANGED <<exclusion_config, run, rng, widgets, df, df_clean, X, y, model, means,
                   inputs, caption, input_data, predictions, pred_df, result, history>>

\* df_clean = df.drop(drop_indices, errors='ignore').reset_index(drop=True)
Clean ==
    /\ pc = "clean"
    /\ df_clean' = clean(df, drop_indices)
    /\ pc' = "design"
    /\ UNCHANGED <<exclusion_config, run, rng, widgets, df, drop_indices, X, y, model, means,
                   inputs, caption, input_data, predictions, pred_df, result, history>>

\* X = df_clean[[...]]; y = df_clean['production']; X = sm.add_constant(X)
Design ==
    /\ pc = "design"
    /\ X' = <<add_constant(SelectColumns(df_clean, PredictorColumns))>>
    /\ y' = [i \in 1..Len(df_clean) |-> df_clean[i].production]
    /\ pc' = "fit"
    /\ UNCHANGED <<exclusion_config, run, rng, widgets, df, drop_indices, df_clean, model, means,
                   inputs, caption, input_data, predictions, pred_df, result, history>>

\* model = sm.OLS(y, X).fit()
Fit ==
    /\ pc = "fit"
    /\ model' = <<OLSFit(y, X[1])>>
    /\ pc' = "means"
    /\ UNCHANGED <<exclusion_config, run, rng, widgets, df, drop_indices, df_clean, X, y, means,
                   inputs, caption, input_data, predictions, pred_df, result, history>>

\* means = df_clean.mean()
Means ==
    /\ pc = "means"
    /\ means' = <<ColumnMeans(df_clean)>>
    /\ pc' = "sliders"
    /\ UNCHANGED <<exclusion_config, run, rng, widgets, df, drop_indices, df_clean, X, y, model,
                   inputs, caption, input_data, predictions, pred_df, result, history>>

\* input_yield = st.slider(...); input_prod = ...; input_wf = ...; input_hour = ...
Sliders ==
    /\ pc = "sliders"
    /\ inputs' = <<widgets>>
    /\ pc' = "caption"
    /\ UNCHANGED <<exclusion_config, run, rng, widgets, df, drop_indices, df_clean, X, y, model, means,
                   caption, input_data, predictions, pred_df, result, history>>

\* st.caption(f"... {model.rsquared:.2f}")
Caption ==
    /\ pc = "caption"
    /\ caption' = <<rsquared(model[1])>>
    /\ pc' = "input"
    /\ UNCHANGED <<exclusion_config, run, rng, widgets, df, drop_indices, df_clean, X, y, model, means,
                   inputs, input_data, predictions, pred_df, result, history>>

\* input_data = pd.DataFrame({'const': 1.0, 'yield': [input_yield], ...})
BuildInput ==
    /\ pc = "input"
    /\ input_data' = <<MakeInput(inputs[1])>>
    /\ pc' = "predict"
    /\ UNCHANGED <<exclusion_config, run, rng, widgets, df, drop_indices, df_clean, X, y, model, means,
                   inputs, caption, predictions, pred_df, result, history>>

\* a prediction that folds the request into the model it reads
GetPredictionUpdating ==
    /\ pc = "predict"
    /\ LET pr == get_prediction(model[1], input_data[1])
       IN  IF pr.ok
           THEN predictions' = <<pr>> /\ pc' = "frame"
           ELSE predictions' = predictions /\ pc' = "error"
    /\ model' = <<[model[1] EXCEPT !.nobs = @ + 1, !.df_resid = @ + 1]>>
    /\ UNCHANGED <<exclusion_config, run, rng, widgets, df, drop_indices, df_clean, X, y,
                   means, inputs, caption, input_data, pred_df, result, history>>

\* predictions = model.get_prediction(input_data)
GetPrediction ==
    /\ pc = "predict"
    /\ LET pr == get_prediction(model[1], input_data[1])
       IN  IF pr.ok
           THEN predictions' = <<pr>> /\ pc' = "frame"
           ELSE predictions' = predictions /\ pc' = "error"
    /\ UNCHANGED <<exclusion_config, run, rng, widgets, df, drop_indices, df_clean, X, y, model, means,
                   inputs, caption, input_data, pred_df, result, history>>

\* pred_df = predictions.summary_frame(alpha=0.05)
SummaryFrame ==
    /\ pc = "frame"
    /\ pred_df' = <<summary_frame(predictions[1], AlphaPct)>>
    /\ pc' = "extract"
    /\ UNCHANGED <<exclusion_config, run, rng, widgets, df, drop_indices, df_clean, X, y, model, means,
                   inputs, caption, input_data, predictions, result, history>>

\* pred_val = pred_df['mean'][0]; lower_val = ...; upper_val = ...; the
\* rest of the script renders them
Extract ==
    /\ pc = "extract"
    /\ result' = <<ExtractResult(pred_df[1])>>
    /\ history' = history \cup
          {[inputs |-> inputs[1], result |-> ExtractResult(pred_df[1])]}
    /\ pc' = "done"
    /\ UNCHANGED <<exclusion_config, run, rng, widgets, df, drop_indices, df_clean, X, y, model, means,
                   inputs, caption, input_data, predictions, pred_df>>

\* a rerun in the namespace of the run before: every name stays bound
RerunSameNamespace ==
    /\ pc = "done"
    /\ run < MaxRuns
    /\ \E w \in SliderNames, v \in SliderLevels : widgets' = [widgets EXCEPT ![w] = v]
    /\ run' = run + 1
    /\ pc' = "seed"
    /\ UNCHANGED <<exclusion_config, rng, history, df, drop_indices, df_clean, X, y, model,
                   means, inputs, caption, input_data, predictions, pred_df, result>>

\* The user refreshes the page or moves one slider: the script runs again
\* from the top in a fresh namespace; the process (and its generator) and
\* the session's widget values live on.
Rerun ==
    /\ pc = "done"
    /\ run < MaxRuns
    /\ \E w \in SliderNames, v \in SliderLevels : widgets' = [widgets EXCEPT ![w] = v]
    /\ run' = run + 1
    /\ pc' = "seed"
    /\ df' = << >> /\ drop_indices' = {} /\ df_clean' = << >>
    /\ X' = << >> /\ y' = << >> /\ model' = << >> /\ means' = << >>
    /\ inputs' = << >> /\ caption' = << >> /\ input_data' = << >>
    /\ predictions' = << >> /\ pred_df' = << >> /\ result' = << >>
    /\ UNCHANGED <<exclusion_config, rng, history>>

Next ==
    \/ SeedStep \/ MakeData \/ SetDrop \/ Clean \/ Design \/ Fit \/ Means
    \/ Sliders \/ Caption \/ BuildInput \/ GetPrediction \/ SummaryFrame
    \/ Extract \/ Rerun

Spec == Init /\ [][Next]_vars

\* ------------------------------------------- the script under other
\* exclusion lists: the list is configuration, so the same statements are
\* run with lists that name no row, name rows that do not exist, or leave
\* only a handful of rows.
DropConfigs ==
    { drop_indices_literal,
      {},
      drop_indices_literal \cup {0 - 1, n, n + 15},
      (Len(PredictorColumns) + 1)..(n - 1),
      (Len(PredictorColumns) + 2)..(n - 1) }

InitConfig ==
    /\ pc = "seed" /\ run = 1
    /\ rng \in FreshRngStates
    /\ widgets = SliderDefaults
    /\ history = {}
    /\ exclusion_config \in DropConfigs
    /\ Unbound

SpecConfig == InitConfig /\ [][Next]_vars

\* ------------------------------------------- the cleaning statement on
\* arbitrary tables and exclusion lists
\* tables of 1..MaxRows rows under the default RangeIndex
SampleFrames ==
    UNION { { [i \in 1..rows |->
                 [index |-> i - 1, production |-> f[i], yield |-> 0,
                  productivity |-> 0, workforce |-> 0, hour |-> 0]]
              : f \in [1..rows -> {0, 1}] }
            : rows \in 1..MaxRows }

\* exclusion lists over the labels -1 .. MaxRows (MaxRows names no row)
SampleExclusions == SUBSET ((0 - 1)..MaxRows)

InitClean ==
    /\ pc = "clean" /\ run = 1
    /\ rng = Seed
    /\ widgets = SliderDefaults
    /\ history = {}
    /\ df \in SampleFrames
    /\ exclusion_config \in SampleExclusions
    /\ drop_indices = exclusion_config
    /\ df_clean = << >>
    /\ X = << >> /\ y = << >> /\ model = << >> /\ means = << >>
    /\ inputs = << >> /\ caption = << >> /\ input_data = << >>
    /\ predictions = << >> /\ pred_df = << >> /\ result = << >>

NextClean == Clean

SpecClean == InitClean /\ [][NextClean]_vars

\* ================================================================ claims
\* the statements that have been executed once pc has passed the cleaning
AfterClean == {"design", "fit", "means", "sliders", "caption", "input", "predict",
               "frame", "extract", "done", "error"}

\* the original labels that survive an exclusion list
Survivors(frame, labels) == {i \in 0..(Len(frame) - 1) : i \notin labels}

\* the p-th smallest survivor (p from 1)
NthSurvivor(frame, labels, p) ==
    CHOOSE i \in Survivors(frame, labels) :
        Cardinality({j \in Survivors(frame, labels) : j < i}) = p - 1

\* C1: for every table of n >= 1 rows and every exclusion list (labels
\* below 0 or at or above n included) the cleaned table holds exactly the
\* rows whose original label is not excluded, in their original order,
\* relabelled 0..m-1, with m = n - (number of excluded labels in [0, n));
\* a label that names no row removes nothing and stops nothing.
C1_CleanKeepsExactlyTheSurvivors ==
    pc = "design" =>
        LET m == Len(df) - Cardinality(drop_indices \cap (0..(Len(df) - 1)))
        IN  /\ Len(df_clean) = m
            /\ \A p \in 1..m :
                  /\ df_clean[p].index = p - 1
                  /\ [df_clean[p] EXCEPT !.index = NthSurvivor(df, drop_indices, p)]
                         = df[NthSurvivor(df, drop_indices, p) + 1]

\* a three-row table with distinguishable rows loses its middle row to a
\* list that also names a negative label and a label past the end
C1_Witness ==
    /\ pc = "design"
    /\ Len(df) = 3
    /\ drop_indices = {0 - 1, 1, 3}
    /\ df[1].production # df[3].production
    /\ Len(df_clean) = 2

\* leverage of the request, x' (X'X)^-1 x, in fixed point
Leverage(mdl, x) == MulDiv(QuadForm(x, mdl.cov_num), FP, mdl.cov_den)

\* t * sqrt(variance)
HalfWidth(mdl, variance) == MulDiv(Sqrt(variance), TQuantile(AlphaPct, mdl.df_resid), 1000)

\* C2: the reported bounds are those of the observation-level interval
\* (variance = residual variance * (1 + h0)), not of the interval for the
\* mean response (variance = residual variance * h0); the reported interval
\* contains the mean-response interval and is wider.
C2_ReportsObservationInterval ==
    result # << >> =>
        LET mdl == model[1]
            x == input_data[1].rows[1]
            h0 == Leverage(mdl, x)
            obs == HalfWidth(mdl, MulDiv(mdl.scale, FP + h0, FP))
            mean == HalfWidth(mdl, MulDiv(mdl.scale, h0, FP))
        IN  /\ result[1].lower_val = result[1].pred_val - obs
            /\ result[1].upper_val = result[1].pred_val + obs
            /\ result[1].lower_val < result[1].pred_val - mean
            /\ result[1].upper_val > result[1].pred_val + mean
            /\ h0 >= 0

\* a request away from the defaults has been answered
C2_Witness ==
    /\ result # << >>
    /\ inputs[1] # SliderDefaults
    /\ pred_df[1].mean_ci_lower > result[1].lower_val
    /\ pred_df[1].mean_ci_upper < result[1].upper_val

\* C3: every prediction returned satisfies lower <= mean <= upper, whatever
\* predictions came before it.
C3_IntervalOrdered ==
    result # << >> =>
        /\ ~IsNaN(result[1].lower_val) /\ ~IsNaN(result[1].upper_val)
        /\ result[1].lower_val <= result[1].pred_val
        /\ result[1].pred_val <= result[1].upper_val

\* a prediction of a later run, with a proper interval around the mean
C3_Witness ==
    /\ run >= 2
    /\ result # << >>
    /\ history # {}
    /\ result[1].lower_val < result[1].pred_val
    /\ result[1].pred_val < result[1].upper_val

C4_Inv ==
    model = << >> =>
        caption = << >> /\ predictions = << >> /\ pred_df = << >> /\ result = << >>

C4_Step ==
    /\ (pc = "fit" /\ pc' # "fit") => (model = << >> /\ model' # << >>)
    /\ (pc \in {"caption", "predict", "frame", "extract"} /\ pc' # pc)
          => (model # << >> /\ model' = model)
    /\ (model # << >> /\ run' = run) => model' = model
    /\ (model' # model /\ run' = run) => pc = "fit"

\* C4: within a script run the engine goes Unfitted -> Fitted once: the
\* fit is performed only while no model is bound, the R^2 summary and the
\* prediction only while one is, nothing is predicted or shown while no
\* model is bound, and no step of the run unbinds, rebinds or changes the
\* model; a refresh starts a new run with a model of its own.
C4_TwoStateEngine == [] C4_Inv /\ [][C4_Step]_vars

\* a second run has fitted its own model and predicted with it
C4_Witness == run = 2 /\ pc = "done" /\ model # << >> /\ result # << >>

C7_ResidualDegreesOfFreedom ==
    model # << >> =>
        /\ Len(df) = 30
        /\ Len(df_clean) = 27
        /\ model[1].nobs = Len(df_clean)
        /\ model[1].df_resid = Len(df_clean) - (Len(PredictorColumns) + 1)
        /\ model[1].df_resid = 22

\* the fit of the script's own table has just been made
C7_Witness ==
    /\ pc = "means"
    /\ model # << >>
    /\ drop_indices = {16, 19, 22}
    /\ Len(model[1].params) = 5

C8_Deterministic ==
    \A a, b \in history : a.inputs = b.inputs => a.result = b.result

C8_Step ==
    pc \in {"caption", "input", "predict", "frame", "extract"} =>
        (model' = model /\ X' = X /\ y' = y /\ df_clean' = df_clean)

C9_NoGlobalState == [][rng' = rng]_vars

\* the value the fitted coefficients give a named column
ParamOf(mdl, name) ==
    LET j == CHOOSE k \in 1..Len(mdl.exog_names) : mdl.exog_names[k] = name
    IN  mdl.params[j]

\* C10: the row evaluated at prediction time has the layout of the design
\* rows: 1.0 first, then yield, productivity, workforce, hour, so each
\* slider value meets the coefficient fitted for its own predictor; the
\* sliders carry no intercept, the script prepends it.
C10_SameLayout ==
    /\ X # << >> =>
          /\ X[1].columns = <<"const">> \o PredictorColumns
          /\ \A i \in 1..Len(X[1].rows) : X[1].rows[i][1] = 1
    /\ inputs # << >> => DOMAIN inputs[1] = SliderNames
    /\ input_data # << >> =>
          /\ input_data[1].columns = X[1].columns
          /\ input_data[1].rows[1][1] = 1
          /\ \A j \in 1..Len(PredictorColumns) :
                input_data[1].rows[1][j + 1] = inputs[1][PredictorColumns[j]]
    /\ predictions # << >> =>
          predictions[1].predicted_mean =
              ParamOf(model[1], "const")
              + ParamOf(model[1], "yield") * inputs[1].yield
              + ParamOf(model[1], "productivity") * inputs[1].productivity
              + ParamOf(model[1], "workforce") * inputs[1].workforce
              + ParamOf(model[1], "hour") * inputs[1].hour

\* a request whose workforce and hour values differ has been evaluated
C10_Witness ==
    /\ predictions # << >>
    /\ inputs[1].workforce # inputs[1].hour
    /\ ParamOf(model[1], "workforce") # ParamOf(model[1], "hour")
====
